---- MODULE Spec2Model ----
(***************************************************************************)
(* A model of the Tetris engine of pytetris (tetris-single.py and          *)
(* tetris-tk.py: classes Shape, TetrisBoard, TetrisGame) driven by the     *)
(* event handlers of the GUI class Board (OnTimer, OnKeyDown, start).      *)
(* tetris-tk.py's TetrisGame is tetris-single.py's plus score and level.   *)
(***************************************************************************)
EXTENDS Integers, Sequences, FiniteSets, TLC

\* ------------------------------------------------------------------ bounds
\* Board width and height in tiles (TetrisBoard.__init__ takes both as
\* parameters; the GUI passes 10 and 18).
nTilesH == 4
nTilesV == 3
\* The number of pieces the random source hands out in one run.
MaxDraws == 3
\* The same for a run of direct calls of the engine's methods.
MaxApiDraws == 2
\* The number of rotations followed on one piece.
MaxRotations == 5

\* ------------------------------------------------------- class Tetrominoes
NoShape == 0
IShape == 1
JShape == 2
LShape == 3
OShape == 4
SShape == 5
TShape == 6
ZShape == 7

\* ------------------------------------------------------------- class Shape
shapeCoords ==
  << << << 0, 0>>, <<0, 0>>, <<0, 0>>, <<0, 0>> >>,   \* 0 = NoShape
     << << 0, 3>>, <<0, 2>>, <<0, 1>>, <<0, 0>> >>,   \* 1 = I
     << <<-1, 0>>, <<0, 0>>, <<0, 1>>, <<0, 2>> >>,   \* 2 = J
     << << 1, 0>>, <<0, 0>>, <<0, 1>>, <<0, 2>> >>,   \* 3 = L
     << << 0, 1>>, <<1, 1>>, <<0, 0>>, <<1, 0>> >>,   \* 4 = O
     << <<-1, 0>>, <<0, 0>>, <<0, 1>>, <<1, 1>> >>,   \* 5 = S
     << <<-1, 0>>, <<0, 0>>, <<1, 0>>, <<0, 1>> >>,   \* 6 = T
     << <<-1, 1>>, <<0, 1>>, <<0, 0>>, <<1, 0>> >> >> \* 7 = Z

\* Shape(shape): a fresh piece with its own copy of the template's offsets.
Shape(k) == [shape |-> k, coords |-> shapeCoords[k + 1]]

\* The shape setter: resets kind and offsets of the piece in place.
SetShape(p, k) == [shape |-> k, coords |-> shapeCoords[k + 1]]

\* The kinds Shape.randomize() can return: randint(1, len(shapeCoords)-1).
RandomKinds == 1 .. (Len(shapeCoords) - 1)

\* _transform with the cw / ccw lambdas.
TransformCW(p) ==
  [shape |-> p.shape,
   coords |-> [i \in 1..4 |-> <<p.coords[i][2], 0 - p.coords[i][1]>>]]

\* A ccw lambda that is a copy of the cw one.
TransformCCW_as_cw(p) == TransformCW(p)

TransformCCW(p) ==
  [shape |-> p.shape,
   coords |-> [i \in 1..4 |-> <<0 - p.coords[i][2], p.coords[i][1]>>]]

\* A rotate_cw without the test for kind O.
rotate_cw_turns_O(p) == TransformCW(p)

rotate_cw(p) == IF p.shape = OShape THEN p ELSE TransformCW(p)

rotate_ccw(p) == IF p.shape = OShape THEN p ELSE TransformCCW(p)

\* Shape objects in memory.  A Shape holds its kind and a reference to its
\* list of offsets; lists[a] is the list at address a.  Addresses
\* NoShape..ZShape hold the rows of the template table Shape.shapeCoords, the
\* addresses above them the lists of the pieces alive (two names, this_piece
\* and next_piece, and one list under construction).
TemplateAddrs == 0 .. (Len(shapeCoords) - 1)

PieceAddrs == Len(shapeCoords) .. (Len(shapeCoords) + 2)

\* TetrisGame.__init__: this_piece = Shape(); next_piece = Shape()
InitHeap ==
  [lists |-> [a \in TemplateAddrs \cup PieceAddrs |->
                IF a \in TemplateAddrs THEN shapeCoords[a + 1]
                ELSE shapeCoords[NoShape + 1]],
   this |-> [shape |-> NoShape, addr |-> Len(shapeCoords)],
   next |-> [shape |-> NoShape, addr |-> Len(shapeCoords) + 1]]

\* An address no name refers to, for a list about to be created.
FreshAddr(h) ==
  CHOOSE a \in PieceAddrs :
     /\ a \notin {h.this.addr, h.next.addr}
     /\ \A b \in PieceAddrs : (b \notin {h.this.addr, h.next.addr}) => a <= b

\* The piece object o as a value: its kind and the offsets its list holds.
PieceValue(h, o) == [shape |-> o.shape, coords |-> h.lists[o.addr]]

\* A Shape.__init__ that keeps a reference to the template's row instead of
\* copying it.
ShapeInit_shares_template(h, k) ==
  [lists |-> h.lists, obj |-> [shape |-> k, addr |-> k]]

\* Shape.__init__(shape): self.coords is a new list holding a copy of the
\* template's row as it is in memory.
ShapeInit(h, k) ==
  [lists |-> [h.lists EXCEPT ![FreshAddr(h)] = h.lists[k]],
   obj |-> [shape |-> k, addr |-> FreshAddr(h)]]

\* The shape setter on object o: self.coords[:] = ..., the list is rewritten
\* in place with a copy of the template's row.
ShapeSet(h, o, k) ==
  [lists |-> [h.lists EXCEPT ![o.addr] = h.lists[k]],
   obj |-> [shape |-> k, addr |-> o.addr]]

\* o.rotate_cw() / o.rotate_ccw(), v the value the rotation gives: the object
\* itself when nothing turns (kind O), else a Shape(o.shape) whose coords is
\* bound to a new list of the turned offsets.
ShapeRotated(h, o, v) ==
  IF v = PieceValue(h, o) THEN [lists |-> h.lists, obj |-> o]
  ELSE LET r == ShapeInit(h, o.shape)
       IN  [lists |-> [r.lists EXCEPT ![FreshAddr(h)] = v.coords],
            obj |-> [shape |-> o.shape, addr |-> FreshAddr(h)]]

\* ------------------------------------------------------- class TetrisBoard
\* tiles is a Python list of nTilesV*nTilesH kinds, row major.  Python
\* indexes it from 0, the sequence here from 1: list index i is element i+1.
NTiles == nTilesV * nTilesH

\* clear(): every tile NoShape.
ClearTiles == [i \in 1..NTiles |-> NoShape]

\* The list index board[x, y] uses.
FlatIndex(x, y) == y * nTilesH + x

\* A Python list index is valid from -len to len-1; a negative one counts
\* from the end.
IndexOK(i) == (0 - NTiles) <= i /\ i < NTiles

PyIndex(i) == IF i < 0 THEN i + NTiles ELSE i

\* __getitem__ and __setitem__ (callers below check IndexOK where Python
\* would raise IndexError).
GetItem(t, x, y) == t[PyIndex(FlatIndex(x, y)) + 1]

SetItem(t, x, y, v) == [t EXCEPT ![PyIndex(FlatIndex(x, y)) + 1] = v]

\* Whether (x, y) names a tile of the board.
OnBoard(x, y) == 0 <= x /\ x < nTilesH /\ 0 <= y /\ y < nTilesV

\* The absolute cells of a piece placed with its origin at (x, y).
AbsCoords(p, x, y) == [i \in 1..4 |-> <<p.coords[i][1] + x, p.coords[i][2] + y>>]

BelowTop(c) == c[2] < nTilesV

\* A check_pos without the test for a piece wholly above the top.
check_pos_no_empty_test(t, p, x, y) ==
  LET coords == SelectSeq(AbsCoords(p, x, y), BelowTop)
  IN  IF ~(\A i \in 1..Len(coords) :
             0 <= coords[i][1] /\ coords[i][1] < nTilesH /\ coords[i][2] >= 0)
        THEN FALSE
      ELSE IF \E i \in 1..Len(coords) :
                  GetItem(t, coords[i][1], coords[i][2]) # NoShape
        THEN FALSE
      ELSE TRUE

\* check_pos(piece, x, y)
check_pos(t, p, x, y) ==
  LET coords == SelectSeq(AbsCoords(p, x, y), BelowTop)
  IN  IF coords = << >> THEN FALSE
      ELSE IF ~(\A i \in 1..Len(coords) :
                  0 <= coords[i][1] /\ coords[i][1] < nTilesH /\ coords[i][2] >= 0)
           THEN FALSE
      ELSE IF \E i \in 1..Len(coords) :
                  GetItem(t, coords[i][1], coords[i][2]) # NoShape
           THEN FALSE
      ELSE TRUE

\* The rows that are not full, bottom to top.
RowNotFull(t, y) == \E x \in 0..(nTilesH - 1) : GetItem(t, x, y) = NoShape

RECURSIVE NotFullFrom(_, _)
NotFullFrom(t, y) ==
  IF y >= nTilesV THEN << >>
  ELSE IF RowNotFull(t, y) THEN <<y>> \o NotFullFrom(t, y + 1)
  ELSE NotFullFrom(t, y + 1)

NotFull(t) == NotFullFrom(t, 0)

\* move = [(i, j) for i, j in enumerate(notfull) if i != j]
MoveIsMoved(m) == m[1] # m[2]

MoveList(notfull) ==
  SelectSeq([i \in 1..Len(notfull) |-> <<i - 1, notfull[i]>>], MoveIsMoved)

\* for i in range(nTilesH): self[i, j] = self[i, k]
RECURSIVE CopyRow(_, _, _, _)
CopyRow(t, j, k, i) ==
  IF i >= nTilesH THEN t
  ELSE CopyRow(SetItem(t, i, j, GetItem(t, i, k)), j, k, i + 1)

\* for j, k in move: copy row k to row j, in list order
RECURSIVE MoveRows(_, _, _)
MoveRows(t, move, n) ==
  IF n > Len(move) THEN t
  ELSE MoveRows(CopyRow(t, move[n][1], move[n][2], 0), move, n + 1)

\* for j in range(toprow, nTilesV): fill row j with NoShape
FillTop(t, toprow) ==
  [i \in 1..NTiles |-> IF i - 1 >= toprow * nTilesH THEN NoShape ELSE t[i]]

RECURSIVE MaxFirst(_, _)
MaxFirst(move, n) ==
  IF n = Len(move) THEN move[n][1]
  ELSE LET r == MaxFirst(move, n + 1)
       IN  IF move[n][1] > r THEN move[n][1] ELSE r

\* removefull(): the board afterwards, the value returned and whether it
\* raised: max() of an empty sequence raises ValueError, after the row moves.
removefull(t) ==
  LET notfull == NotFull(t)
      move    == MoveList(notfull)
      moved   == MoveRows(t, move, 1)
  IN  IF nTilesV = Len(notfull)
        THEN [tiles |-> t, ret |-> 0, raised |-> FALSE]
      ELSE IF move = << >>
        THEN [tiles |-> moved, ret |-> 0, raised |-> TRUE]
      ELSE [tiles |-> FillTop(moved, MaxFirst(move, 1) + 1),
            ret |-> nTilesV - Len(notfull), raised |-> FALSE]

\* -------------------------------------------------------- class TetrisGame
VARIABLES
  tiles,           \* TetrisBoard.tiles
  this_piece,      \* the falling piece (kind NoShape: none)
  next_piece,      \* the piece queued to fall next
  cur_x, cur_y,    \* origin of this_piece on the board
  neednewpiece,    \* old piece dropped, new piece to be created
  paused,          \* game paused
  started,         \* game started
  rows_completed,  \* number of rows completed
  score, level,    \* tetris-tk.py only
  timer,           \* Board.timer is running (wx.Timer Start / Stop)
  draws,           \* how many pieces Shape.randomize() has handed out
  heap,            \* the Shape objects' offset lists in memory (see InitHeap)
  ev               \* what the last handler's engine call did (history)

vars == <<tiles, this_piece, next_piece, cur_x, cur_y, neednewpiece, paused,
          started, rows_completed, score, level, timer, draws, heap, ev>>

\* The engine's fields as one value, so that a method is an operator on it.
Engine ==
  [tiles |-> tiles, this_piece |-> this_piece, next_piece |-> next_piece,
   cur_x |-> cur_x, cur_y |-> cur_y, neednewpiece |-> neednewpiece,
   paused |-> paused, started |-> started, rows_completed |-> rows_completed,
   score |-> score, level |-> level]

\* No lock, no row removal, no exception: what a call reports by default.
NoLock ==
  [raised |-> FALSE, didlock |-> FALSE, locked |-> ClearTiles, oob |-> FALSE,
   removed |-> 0, draws |-> 0]

\* A try_pos that, when (x, y) is rejected, tries one column to the right
\* (a wall kick).
try_pos_kick(e, p, x, y) ==
  IF check_pos(e.tiles, p, x, y)
    THEN [st |-> [e EXCEPT !.this_piece = p, !.cur_x = x, !.cur_y = y],
          ret |-> TRUE]
  ELSE IF check_pos(e.tiles, p, x + 1, y)
    THEN [st |-> [e EXCEPT !.this_piece = p, !.cur_x = x + 1, !.cur_y = y],
          ret |-> TRUE]
  ELSE [st |-> e, ret |-> FALSE]

\* A try_pos that takes the position without asking check_pos.
try_pos_unchecked(e, p, x, y) ==
  [st |-> [e EXCEPT !.this_piece = p, !.cur_x = x, !.cur_y = y], ret |-> TRUE]

\* try_pos(piece, x, y)
try_pos(e, p, x, y) ==
  IF check_pos(e.tiles, p, x, y)
    THEN [st |-> [e EXCEPT !.this_piece = p, !.cur_x = x, !.cur_y = y],
          ret |-> TRUE]
    ELSE [st |-> e, ret |-> FALSE]

\* A make_new_piece that forgets to clear started when the piece does not fit.
make_new_piece_stays_started(e, k) ==
  LET e1 == [e EXCEPT !.neednewpiece = FALSE]
      t  == try_pos(e1, e1.next_piece, nTilesH \div 2, nTilesV - 1)
  IN  IF t.ret
        THEN [st |-> [t.st EXCEPT !.next_piece = Shape(k)], ret |-> TRUE,
              draws |-> 1]
        ELSE [st |-> [e1 EXCEPT !.this_piece = SetShape(e1.this_piece, NoShape)],
              ret |-> FALSE, draws |-> 0]

\* A make_new_piece that leaves neednewpiece as it finds it.
make_new_piece_keeps_flag(e, k) ==
  LET t == try_pos(e, e.next_piece, nTilesH \div 2, nTilesV - 1)
  IN  IF t.ret
        THEN [st |-> [t.st EXCEPT !.next_piece = Shape(k)], ret |-> TRUE,
              draws |-> 1]
        ELSE [st |-> [e EXCEPT !.this_piece = SetShape(e.this_piece, NoShape),
                               !.started = FALSE],
              ret |-> FALSE, draws |-> 0]

\* A make_new_piece that starts the row count afresh with every piece.
make_new_piece_resets_rows(e, k) ==
  LET e1 == [e EXCEPT !.neednewpiece = FALSE, !.rows_completed = 0]
      t  == try_pos(e1, e1.next_piece, nTilesH \div 2, nTilesV - 1)
  IN  IF t.ret
        THEN [st |-> [t.st EXCEPT !.next_piece = Shape(k)], ret |-> TRUE,
              draws |-> 1]
        ELSE [st |-> [e1 EXCEPT !.this_piece = SetShape(e1.this_piece, NoShape),
                                !.started = FALSE],
              ret |-> FALSE, draws |-> 0]

\* make_new_piece(); k is the kind randomize() returns if it is called.
make_new_piece(e, k) ==
  LET e1 == [e EXCEPT !.neednewpiece = FALSE]
      t  == try_pos(e1, e1.next_piece, nTilesH \div 2, nTilesV - 1)
  IN  IF t.ret
        THEN [st |-> [t.st EXCEPT !.next_piece = Shape(k)], ret |-> TRUE,
              draws |-> 1]
        ELSE [st |-> [e1 EXCEPT !.this_piece = SetShape(e1.this_piece, NoShape),
                                !.started = FALSE],
              ret |-> FALSE, draws |-> 0]

\* A start that resets the counters before it looks at paused.
start_resets_first(e, k1, k2) ==
  LET e0 == [e EXCEPT !.neednewpiece = FALSE, !.rows_completed = 0,
                      !.score = 0, !.level = 1]
  IN  IF e.paused THEN [st |-> e0, ret |-> FALSE, draws |-> 0]
      ELSE LET e1 == [e0 EXCEPT !.started = TRUE, !.next_piece = Shape(k1)]
               m  == make_new_piece(e1, k2)
           IN  [st |-> [m.st EXCEPT !.tiles = ClearTiles], ret |-> TRUE,
                draws |-> 1 + m.draws]

\* A start that does not clear the board.
start_keeps_board(e, k1, k2) ==
  IF e.paused THEN [st |-> e, ret |-> FALSE, draws |-> 0]
  ELSE LET e1 == [e EXCEPT !.started = TRUE, !.neednewpiece = FALSE,
                           !.rows_completed = 0, !.score = 0, !.level = 1,
                           !.next_piece = Shape(k1)]
           m  == make_new_piece(e1, k2)
       IN  [st |-> m.st, ret |-> TRUE, draws |-> 1 + m.draws]

\* start(); k1 and k2 are the kinds of the two randomize() calls.
start(e, k1, k2) ==
  IF e.paused THEN [st |-> e, ret |-> FALSE, draws |-> 0]
  ELSE LET e1 == [e EXCEPT !.started = TRUE, !.neednewpiece = FALSE,
                           !.rows_completed = 0, !.score = 0, !.level = 1,
                           !.next_piece = Shape(k1)]
           m  == make_new_piece(e1, k2)
       IN  [st |-> [m.st EXCEPT !.tiles = ClearTiles], ret |-> TRUE,
            draws |-> 1 + m.draws]

\* A pause that toggles also when the game is not started.
pause_always_toggles(e) ==
  [st |-> [e EXCEPT !.paused = ~e.paused], ret |-> ~e.paused]

\* pause()
pause(e) ==
  IF ~e.started THEN [st |-> e, ret |-> TRUE]
  ELSE [st |-> [e EXCEPT !.paused = ~e.paused], ret |-> ~e.paused]

\* The lock step of piece_dropped(): xs holds all four columns, ys only the
\* rows below the top, and zip pairs them in order.
LockPairs(e) ==
  LET xs == [i \in 1..4 |-> e.cur_x + e.this_piece.coords[i][1]]
      allys == [i \in 1..4 |-> e.cur_y + e.this_piece.coords[i][2]]
      ys == SelectSeq(allys, LAMBDA y : y < nTilesV)
  IN  [i \in 1..Len(ys) |-> <<xs[i], ys[i]>>]

\* for x, y in zip(xs, ys): self[x, y] = shape; IndexError stops the loop.
RECURSIVE LockWrites(_, _, _, _)
LockWrites(t, pairs, n, v) ==
  IF n > Len(pairs) THEN [tiles |-> t, raised |-> FALSE]
  ELSE IF ~IndexOK(FlatIndex(pairs[n][1], pairs[n][2]))
    THEN [tiles |-> t, raised |-> TRUE]
  ELSE LockWrites(SetItem(t, pairs[n][1], pairs[n][2], v), pairs, n + 1, v)

\* The score a lock adds for the rows it removed (tetris-tk.py: none).
ScoreGain(n) == 0

\* A piece_dropped that counts every removed row twice.
piece_dropped_counts_twice(e) ==
  LET pairs == LockPairs(e)
      lock  == LockWrites(e.tiles, pairs, 1, e.this_piece.shape)
      oob   == \E i \in 1..Len(pairs) : ~OnBoard(pairs[i][1], pairs[i][2])
      e1    == [e EXCEPT !.tiles = lock.tiles, !.neednewpiece = TRUE,
                         !.this_piece = SetShape(e.this_piece, NoShape)]
      rf    == removefull(e1.tiles)
  IN  IF lock.raised
        THEN [st |-> [e EXCEPT !.tiles = lock.tiles], raised |-> TRUE,
              didlock |-> TRUE, locked |-> lock.tiles, oob |-> oob,
              removed |-> 0, draws |-> 0]
      ELSE IF rf.raised
        THEN [st |-> [e1 EXCEPT !.tiles = rf.tiles], raised |-> TRUE,
              didlock |-> TRUE, locked |-> lock.tiles, oob |-> oob,
              removed |-> 0, draws |-> 0]
      ELSE [st |-> [e1 EXCEPT !.tiles = rf.tiles,
                              !.rows_completed = @ + 2 * rf.ret],
            raised |-> FALSE, didlock |-> TRUE, locked |-> lock.tiles,
            oob |-> oob, removed |-> 2 * rf.ret, draws |-> 0]

\* piece_dropped()
piece_dropped(e) ==
  LET pairs == LockPairs(e)
      lock  == LockWrites(e.tiles, pairs, 1, e.this_piece.shape)
      oob   == \E i \in 1..Len(pairs) : ~OnBoard(pairs[i][1], pairs[i][2])
      e1    == [e EXCEPT !.tiles = lock.tiles, !.neednewpiece = TRUE,
                         !.this_piece = SetShape(e.this_piece, NoShape)]
      rf    == removefull(e1.tiles)
  IN  IF lock.raised
        THEN [st |-> [e EXCEPT !.tiles = lock.tiles], raised |-> TRUE,
              didlock |-> TRUE, locked |-> lock.tiles, oob |-> oob,
              removed |-> 0, draws |-> 0]
      ELSE IF rf.raised
        THEN [st |-> [e1 EXCEPT !.tiles = rf.tiles], raised |-> TRUE,
              didlock |-> TRUE, locked |-> lock.tiles, oob |-> oob,
              removed |-> 0, draws |-> 0]
      ELSE [st |-> [e1 EXCEPT !.tiles = rf.tiles,
                              !.rows_completed = @ + rf.ret,
                              !.score = @ + ScoreGain(rf.ret)],
            raised |-> FALSE, didlock |-> TRUE, locked |-> lock.tiles,
            oob |-> oob, removed |-> rf.ret, draws |-> 0]

\* A one_row_down that ends the game when the piece locks at the spawn row.
one_row_down_lockout(e) ==
  LET t == try_pos(e, e.this_piece, e.cur_x, e.cur_y - 1)
      d == piece_dropped(e)
  IN  IF t.ret THEN [st |-> t.st, ret |-> TRUE] @@ NoLock
      ELSE [ret |-> FALSE,
            st |-> [d.st EXCEPT !.started = (e.cur_y < nTilesV - 1)]] @@ d

\* A one_row_down that leaves a piece that cannot move down where it is.
one_row_down_never_locks(e) ==
  LET t == try_pos(e, e.this_piece, e.cur_x, e.cur_y - 1)
  IN  IF t.ret THEN [st |-> t.st, ret |-> TRUE] @@ NoLock
      ELSE [st |-> e, ret |-> FALSE] @@ NoLock

\* one_row_down()
one_row_down(e) ==
  LET t == try_pos(e, e.this_piece, e.cur_x, e.cur_y - 1)
  IN  IF t.ret THEN [st |-> t.st, ret |-> TRUE] @@ NoLock
      ELSE [ret |-> FALSE] @@ piece_dropped(e)

\* ----------------------------------------------------- class Board (GUI)
\* drop_down(): while self.move_down(): pass
RECURSIVE drop_down(_)
drop_down(e) ==
  LET r == one_row_down(e)
  IN  IF r.ret /\ ~r.raised THEN drop_down(r.st) ELSE r

\* The handler's engine call r becomes the next state.
Commit(r, op) ==
  /\ tiles' = r.st.tiles
  /\ this_piece' = r.st.this_piece
  /\ next_piece' = r.st.next_piece
  /\ cur_x' = r.st.cur_x
  /\ cur_y' = r.st.cur_y
  /\ neednewpiece' = r.st.neednewpiece
  /\ paused' = r.st.paused
  /\ started' = r.st.started
  /\ rows_completed' = r.st.rows_completed
  /\ score' = r.st.score
  /\ level' = r.st.level
  /\ draws' = draws + r.draws
  /\ UNCHANGED heap
  /\ ev' = [op |-> op, ret |-> r.ret, raised |-> r.raised,
            didlock |-> r.didlock, locked |-> r.locked, oob |-> r.oob,
            removed |-> r.removed]

\* TetrisGame.__init__ and Board.__init__ before the first start().
Init ==
  /\ tiles = ClearTiles
  /\ this_piece = Shape(NoShape)
  /\ next_piece = Shape(NoShape)
  /\ cur_x = 0
  /\ cur_y = 0
  /\ neednewpiece = FALSE
  /\ paused = FALSE
  /\ started = FALSE
  /\ rows_completed = 0
  /\ score = 0
  /\ level = 0
  /\ timer = FALSE
  /\ draws = 0
  /\ heap = InitHeap
  /\ ev = [op |-> "init", ret |-> FALSE, raised |-> FALSE, didlock |-> FALSE,
           locked |-> ClearTiles, oob |-> FALSE, removed |-> 0]

\* Board.start(): the engine's start(), and the timer if it returned True.
BoardStart ==
  /\ paused \/ draws < MaxDraws
  /\ \E k1, k2 \in RandomKinds :
       LET r == start(Engine, k1, k2)
       IN  /\ draws + r.draws <= MaxDraws
           /\ Commit(r @@ NoLock, "start")
           /\ timer' = IF r.ret THEN TRUE ELSE timer

\* OnKeyDown ignores every key unless started with a falling piece.
KeysAccepted == started /\ this_piece.shape # NoShape

\* A Board.pause() that leaves the timer running.
OnKeyDownP_keeps_timer ==
  /\ started /\ this_piece.shape # NoShape
  /\ Commit(pause(Engine) @@ NoLock, "pause")
  /\ UNCHANGED timer

\* Key P: Board.pause()
OnKeyDownP ==
  /\ KeysAccepted
  /\ LET r == pause(Engine)
     IN  /\ Commit(r @@ NoLock, "pause")
         /\ timer' = ~r.ret

\* Board.try_move(piece, x_delta)
try_move(p, x_delta) ==
  /\ KeysAccepted /\ ~paused
  /\ Commit(try_pos(Engine, p, cur_x + x_delta, cur_y) @@ NoLock, "try_pos")
  /\ UNCHANGED timer

OnKeyDownLeft == try_move(this_piece, -1)

OnKeyDownRight == try_move(this_piece, 1)

OnKeyDownDown == try_move(rotate_ccw(this_piece), 0)

OnKeyDownUp == try_move(rotate_cw(this_piece), 0)

\* Key space: Board.drop_down()
OnKeyDownSpace ==
  /\ KeysAccepted /\ ~paused
  /\ Commit(drop_down(Engine), "drop_down")
  /\ UNCHANGED timer

\* Key D: Board.move_down()
OnKeyDownD ==
  /\ KeysAccepted /\ ~paused
  /\ Commit(one_row_down(Engine), "one_row_down")
  /\ UNCHANGED timer

\* OnTimer: a new piece if one is needed, else one row down.
OnTimer ==
  /\ timer
  /\ IF neednewpiece
       THEN \E k \in RandomKinds :
              LET r == make_new_piece(Engine, k)
              IN  /\ draws + r.draws <= MaxDraws
                  /\ Commit(r @@ NoLock, "make_new_piece")
                  /\ timer' = r.ret
       ELSE /\ Commit(one_row_down(Engine), "one_row_down")
            /\ UNCHANGED timer

Next ==
  \/ BoardStart
  \/ OnKeyDownP
  \/ OnKeyDownLeft
  \/ OnKeyDownRight
  \/ OnKeyDownDown
  \/ OnKeyDownUp
  \/ OnKeyDownSpace
  \/ OnKeyDownD
  \/ OnTimer

Spec == Init /\ [][Next]_vars

\* What OnTimer's engine call does when randomize() would return k.
OnTimerCall(k) ==
  IF neednewpiece THEN make_new_piece(Engine, k) @@ NoLock
  ELSE one_row_down(Engine)

\* A timer event can fire and change the state: ENABLED <<OnTimer>>_vars,
\* written as a state predicate.
OnTimerCanAct ==
  /\ timer
  /\ \E k \in RandomKinds :
       LET r == OnTimerCall(k)
       IN  /\ draws + r.draws <= MaxDraws
           /\ \/ r.st # Engine
              \/ r.draws # 0
              \/ (neednewpiece /\ r.ret # timer)
              \/ ev # [op |-> IF neednewpiece THEN "make_new_piece"
                                             ELSE "one_row_down",
                       ret |-> r.ret, raised |-> r.raised,
                       didlock |-> r.didlock, locked |-> r.locked,
                       oob |-> r.oob, removed |-> r.removed]

\* wx.Timer fires at every interval while it runs: a timer event that can
\* act again and again does occur.  This is SF_vars(OnTimer) with its
\* ENABLED written out as OnTimerCanAct.
SpecLive ==
  /\ Init
  /\ [][Next]_vars
  /\ (<>[](~OnTimerCanAct)) \/ ([]<><<OnTimer>>_vars)

\* ------------------------------------------- tetris-tk.py: class Tetris
\* The engine of tetris-tk.py has the text of tetris-single.py's; the driver
\* keeps time with Tk's one-shot after() callbacks.  Here the variable timer
\* holds self.timer and the callbacks Tk has pending: handle is "None",
\* "pending" (the id of a callback still to fire) or "gone" (the id of one
\* that has fired or was cancelled); orphans counts the pending callbacks
\* whose id self.timer no longer holds.
TkInitTimer == [handle |-> "None", orphans |-> 0]

\* The number of OnTimer callbacks Tk has pending.
TkPending(tm) == tm.orphans + (IF tm.handle = "pending" THEN 1 ELSE 0)

\* if self.timer: after_cancel(self.timer)
\* self.timer = self.parent.after(self.speed, self.OnTimer)
TkArm(tm) == [handle |-> "pending", orphans |-> tm.orphans]

\* if self.timer: after_cancel(self.timer); self.timer = None
TkCancel(tm) ==
  IF tm.handle = "None" THEN tm ELSE [handle |-> "None", orphans |-> tm.orphans]

\* Tetris.start()
TkStart ==
  /\ paused \/ draws < MaxDraws
  /\ \E k1, k2 \in RandomKinds :
       LET r == start(Engine, k1, k2)
       IN  /\ draws + r.draws <= MaxDraws
           /\ Commit(r @@ NoLock, "start")
           /\ timer' = IF r.ret THEN TkArm(timer) ELSE timer

\* Key P: Tetris.pause()
TkKeyP ==
  /\ KeysAccepted
  /\ LET r == pause(Engine)
     IN  /\ Commit(r @@ NoLock, "pause")
         /\ timer' = IF r.ret THEN TkCancel(timer) ELSE TkArm(timer)

\* Tk takes a pending callback off its queue and calls it: the one
\* self.timer names, or an orphan.
TkFired(tm) ==
  (IF tm.handle = "pending"
     THEN {[handle |-> "gone", orphans |-> tm.orphans]} ELSE {})
  \cup
  (IF tm.orphans > 0
     THEN {[handle |-> tm.handle, orphans |-> tm.orphans - 1]} ELSE {})

\* Tetris.OnTimer(): on game over self.timer = None and no re-arming; an
\* exception out of move_down() leaves the method before the re-arming.
TkOnTimer ==
  \E tm \in TkFired(timer) :
    IF neednewpiece
      THEN \E k \in RandomKinds :
             LET r == make_new_piece(Engine, k)
             IN  /\ draws + r.draws <= MaxDraws
                 /\ Commit(r @@ NoLock, "make_new_piece")
                 /\ timer' = IF r.ret THEN TkArm(tm)
                              ELSE [handle |-> "None", orphans |-> tm.orphans]
      ELSE LET r == one_row_down(Engine)
           IN  /\ Commit(r, "one_row_down")
               /\ timer' = IF r.raised THEN tm ELSE TkArm(tm)

\* Tetris.__init__: self.timer = None
InitTk ==
  /\ tiles = ClearTiles
  /\ this_piece = Shape(NoShape)
  /\ next_piece = Shape(NoShape)
  /\ cur_x = 0
  /\ cur_y = 0
  /\ neednewpiece = FALSE
  /\ paused = FALSE
  /\ started = FALSE
  /\ rows_completed = 0
  /\ score = 0
  /\ level = 0
  /\ timer = TkInitTimer
  /\ draws = 0
  /\ heap = InitHeap
  /\ ev = [op |-> "init", ret |-> FALSE, raised |-> FALSE, didlock |-> FALSE,
           locked |-> ClearTiles, oob |-> FALSE, removed |-> 0]

NextTk ==
  \/ TkStart
  \/ TkKeyP
  \/ OnKeyDownLeft
  \/ OnKeyDownRight
  \/ OnKeyDownDown
  \/ OnKeyDownUp
  \/ OnKeyDownSpace
  \/ OnKeyDownD
  \/ TkOnTimer

SpecTk == InitTk /\ [][NextTk]_vars

\* ------------------------------------------- the engine called directly
\* TetrisGame's methods are public: a caller other than Board can call them
\* in any order and state.  The timer is Board's and stays as it is.
ApiStart ==
  /\ \E k1, k2 \in RandomKinds :
       LET r == start(Engine, k1, k2)
       IN  /\ draws + r.draws <= MaxApiDraws
           /\ Commit(r @@ NoLock, "start")
  /\ UNCHANGED timer

ApiPause ==
  /\ Commit(pause(Engine) @@ NoLock, "pause")
  /\ UNCHANGED timer

ApiMakeNewPiece ==
  /\ \E k \in RandomKinds :
       LET r == make_new_piece(Engine, k)
       IN  /\ draws + r.draws <= MaxApiDraws
           /\ Commit(r @@ NoLock, "make_new_piece")
  /\ UNCHANGED timer

\* try_pos with the arguments Board passes: the piece or a rotation of it,
\* at most one column to either side.
ApiTryPos ==
  /\ \E p \in {this_piece, rotate_cw(this_piece), rotate_ccw(this_piece)} :
       \E x_delta \in {-1, 0, 1} :
         Commit(try_pos(Engine, p, cur_x + x_delta, cur_y) @@ NoLock, "try_pos")
  /\ UNCHANGED timer

ApiOneRowDown ==
  /\ Commit(one_row_down(Engine), "one_row_down")
  /\ UNCHANGED timer

NextApi ==
  \/ ApiStart
  \/ ApiPause
  \/ ApiMakeNewPiece
  \/ ApiTryPos
  \/ ApiOneRowDown

SpecApi == Init /\ [][NextApi]_vars

\* ------------------------------------------------- check_pos on its own
\* Every kind in the four orientations the rotations give.
Pieces ==
  UNION {{Shape(k), rotate_cw(Shape(k)), rotate_cw(rotate_cw(Shape(k))),
          rotate_ccw(Shape(k))} : k \in RandomKinds}

\* Boards with at most one tile occupied or at most one tile empty.
Boards ==
  {t \in [1..NTiles -> {NoShape, IShape}] :
     LET n == Cardinality({i \in 1..NTiles : t[i] # NoShape})
     IN  n <= 1 \/ n >= NTiles - 1}

\* A board, a piece and an origin from one column left of the board to one
\* right of it, and from one row below it to four rows above its top row.
InitCheckPos ==
  /\ tiles \in Boards
  /\ this_piece \in Pieces
  /\ next_piece = Shape(NoShape)
  /\ cur_x \in (-1)..nTilesH
  /\ cur_y \in (-1)..(nTilesV + 3)
  /\ neednewpiece = FALSE
  /\ paused = FALSE
  /\ started = FALSE
  /\ rows_completed = 0
  /\ score = 0
  /\ level = 0
  /\ timer = FALSE
  /\ draws = 0
  /\ heap = InitHeap
  /\ ev = [op |-> "init", ret |-> FALSE, raised |-> FALSE, didlock |-> FALSE,
           locked |-> ClearTiles, oob |-> FALSE, removed |-> 0]

\* board.check_pos(this_piece, cur_x, cur_y); ev.ret is what it returns.
CheckPosCall ==
  /\ ev.op = "init"
  /\ ev' = [ev EXCEPT !.op = "check_pos",
                      !.ret = check_pos(tiles, this_piece, cur_x, cur_y)]
  /\ UNCHANGED <<tiles, this_piece, next_piece, cur_x, cur_y, neednewpiece,
                 paused, started, rows_completed, score, level, timer, draws,
                 heap>>

NextCheckPos == CheckPosCall

SpecCheckPos == InitCheckPos /\ [][NextCheckPos]_vars

\* ------------------------------------------------ removefull on its own
\* Every board of empty and occupied tiles.
AllBoards == [1..NTiles -> {NoShape, IShape}]

InitRemoveFull ==
  /\ tiles \in AllBoards
  /\ this_piece = Shape(NoShape)
  /\ next_piece = Shape(NoShape)
  /\ cur_x = 0
  /\ cur_y = 0
  /\ neednewpiece = FALSE
  /\ paused = FALSE
  /\ started = FALSE
  /\ rows_completed = 0
  /\ score = 0
  /\ level = 0
  /\ timer = FALSE
  /\ draws = 0
  /\ heap = InitHeap
  /\ ev = [op |-> "init", ret |-> FALSE, raised |-> FALSE, didlock |-> FALSE,
           locked |-> ClearTiles, oob |-> FALSE, removed |-> 0]

\* board.removefull(), called as op; ev.removed is what it returns, ev.locked
\* the board it was called on.
RemoveFullAs(op) ==
  LET r == removefull(tiles)
  IN  /\ tiles' = r.tiles
      /\ ev' = [ev EXCEPT !.op = op, !.raised = r.raised, !.removed = r.ret,
                          !.locked = tiles]
      /\ UNCHANGED <<this_piece, next_piece, cur_x, cur_y, neednewpiece,
                     paused, started, rows_completed, score, level, timer,
                     draws, heap>>

\* The first call, and a second call right after it (by a caller that goes
\* on if the first raised).
RemoveFullCall == ev.op = "init" /\ RemoveFullAs("removefull")

RemoveFullAgain == ev.op = "removefull" /\ RemoveFullAs("removefull again")

NextRemoveFull ==
  \/ RemoveFullCall
  \/ RemoveFullAgain

SpecRemoveFull == InitRemoveFull /\ [][NextRemoveFull]_vars

\* ------------------------------------------------- class Shape on its own
\* The Shape objects of a game: what TetrisGame does with this_piece and
\* next_piece, without the board.  ev.kind is the kind of the piece spawned
\* last, ev.path the rotations applied to it since, ev.hist its offsets
\* before and after each of them.
InitShape ==
  /\ tiles = ClearTiles
  /\ this_piece = Shape(NoShape)
  /\ next_piece = Shape(NoShape)
  /\ cur_x = 0
  /\ cur_y = 0
  /\ neednewpiece = FALSE
  /\ paused = FALSE
  /\ started = FALSE
  /\ rows_completed = 0
  /\ score = 0
  /\ level = 0
  /\ timer = FALSE
  /\ draws = 0
  /\ heap = InitHeap
  /\ ev = [op |-> "init", kind |-> NoShape, path |-> << >>,
           hist |-> <<shapeCoords[NoShape + 1]>>]

\* A list no name refers to any more is freed (its address reads as an
\* empty row from then on).
Collect(h) ==
  [h EXCEPT !.lists =
     [a \in DOMAIN h.lists |->
        IF a \in PieceAddrs /\ a \notin {h.this.addr, h.next.addr}
          THEN shapeCoords[NoShape + 1] ELSE h.lists[a]]]

\* The heap becomes h; this_piece and next_piece are the values of the
\* objects the two names refer to.
ShapeStep(h, op, kind, path, hist) ==
  /\ heap' = Collect(h)
  /\ this_piece' = PieceValue(h, h.this)
  /\ next_piece' = PieceValue(h, h.next)
  /\ ev' = [op |-> op, kind |-> kind, path |-> path, hist |-> hist]
  /\ UNCHANGED <<tiles, cur_x, cur_y, neednewpiece, paused, started,
                 rows_completed, score, level, timer, draws>>

\* start(): self.next_piece = Shape.randomize()
ShapeDraw ==
  \E k \in RandomKinds :
    LET r == ShapeInit(heap, k)
    IN  ShapeStep([lists |-> r.lists, this |-> heap.this, next |-> r.obj],
                  "randomize", ev.kind, ev.path, ev.hist)

\* make_new_piece(), the spawn accepted: this_piece = next_piece (try_pos),
\* then next_piece = Shape.randomize()
ShapeSpawn ==
  \E k \in RandomKinds :
    LET h1 == [heap EXCEPT !.this = heap.next]
        r  == ShapeInit(h1, k)
    IN  ShapeStep([lists |-> r.lists, this |-> h1.this, next |-> r.obj],
                  "make_new_piece", h1.this.shape, << >>,
                  <<r.lists[h1.this.addr]>>)

\* A rotation key, the rotation accepted: this_piece = the object
\* this_piece.rotate_cw() / rotate_ccw() returned (v its value).
ShapeRotate(op, v) ==
  /\ heap.this.shape # NoShape
  /\ Len(ev.path) < MaxRotations
  /\ LET r == ShapeRotated(heap, heap.this, v)
     IN  ShapeStep([lists |-> r.lists, this |-> r.obj, next |-> heap.next],
                   op, ev.kind, Append(ev.path, op),
                   Append(ev.hist, r.lists[r.obj.addr]))

ShapeRotateCW == ShapeRotate("rotate_cw", rotate_cw(PieceValue(heap, heap.this)))

ShapeRotateCCW ==
  ShapeRotate("rotate_ccw", rotate_ccw(PieceValue(heap, heap.this)))

\* piece_dropped(), or make_new_piece() with the spawn rejected:
\* self.this_piece.shape = Tetrominoes.NoShape
ShapeDropped ==
  /\ heap.this.shape # NoShape
  /\ LET r == ShapeSet(heap, heap.this, NoShape)
     IN  ShapeStep([lists |-> r.lists, this |-> r.obj, next |-> heap.next],
                   "setter", ev.kind, ev.path, ev.hist)

NextShape ==
  \/ ShapeDraw
  \/ ShapeSpawn
  \/ ShapeRotateCW
  \/ ShapeRotateCCW
  \/ ShapeDropped

SpecShape == InitShape /\ [][NextShape]_vars

\* ------------------------------------------- tetris-wide.py: class Shape
\* The wide variant keeps the x axis on the top edge of each shape: no
\* offset has y above 0.
shapeCoordsWide ==
  << << << 0,  0>>, <<0,  0>>, << 0,  0>>, << 0, 0>> >>,   \* 0 = NoShape
     << << 0, -3>>, <<0, -2>>, << 0, -1>>, << 0, 0>> >>,   \* 1 = I
     << <<-1, -2>>, <<0, -2>>, << 0, -1>>, << 0, 0>> >>,   \* 2 = J
     << << 1, -2>>, <<0, -2>>, << 0, -1>>, << 0, 0>> >>,   \* 3 = L
     << << 0, -1>>, <<1, -1>>, << 0,  0>>, << 1, 0>> >>,   \* 4 = O
     << << 0, -2>>, <<0, -1>>, <<-1, -1>>, <<-1, 0>> >>,   \* 5 = S
     << << 0, -1>>, <<1,  0>>, << 0,  0>>, <<-1, 0>> >>,   \* 6 = T
     << << 0, -2>>, <<0, -1>>, << 1, -1>>, << 1, 0>> >> >> \* 7 = Z

\* Shape(shape) of tetris-wide.py.
ShapeWide(k) == [shape |-> k, coords |-> shapeCoordsWide[k + 1]]

\* The shape setter of tetris-wide.py.
SetShapeWide(p, k) == [shape |-> k, coords |-> shapeCoordsWide[k + 1]]

\* ------------------------------------- tetris-wide.py: class TetrisBoard
\* __getitem__, __setitem__ and clear() have the text of tetris-single.py's.
\* check_pos(piece, x, y): the piece must lie fully within the board.
check_pos_wide(t, p, x, y) ==
  LET coords == AbsCoords(p, x, y)
  IN  IF ~(\A i \in 1..4 : OnBoard(coords[i][1], coords[i][2]))
        THEN FALSE
      ELSE IF \E i \in 1..4 : GetItem(t, coords[i][1], coords[i][2]) # NoShape
        THEN FALSE
      ELSE TRUE

\* TetrisBoard.removefull(): the text of tetris-single.py's.
removefull_board_wide(t) == removefull(t)

\* The kinds randomize() hands out.  On the program's 18 rows every kind
\* fits the empty board at the spawn position; on a board of fewer rows
\* than a kind is tall that kind is left out, so that this stays so.
KindsWide ==
  {k \in RandomKinds :
     check_pos_wide(ClearTiles, ShapeWide(k), nTilesH \div 2, nTilesV - 1)}

\* --------------------------------------- tetris-wide.py: class GameBoard
\* GameBoard's fields as one value; the timer is one of them.
GameBoard == Engine @@ [timer |-> timer]

\* What a call that locks nothing reports.
NoDrop ==
  [raised |-> FALSE, didlock |-> FALSE, locked |-> ClearTiles, removed |-> 0,
   spawned |-> FALSE, draws |-> 0]

\* make_new_piece(); k is the kind randomize() returns.
make_new_piece_wide(g, k) ==
  LET g1 == [g EXCEPT !.this_piece = g.next_piece,
                      !.next_piece = ShapeWide(k),
                      !.neednewpiece = FALSE,
                      !.cur_x = nTilesH \div 2,
                      !.cur_y = nTilesV - 1]
  IN  IF check_pos_wide(g1.tiles, g1.this_piece, g1.cur_x, g1.cur_y)
        THEN g1
        ELSE [g1 EXCEPT !.this_piece = SetShapeWide(g1.this_piece, NoShape),
                        !.timer = FALSE,
                        !.started = FALSE]

\* start(); k is the kind randomize() returns in make_new_piece().
start_wide(g, k) ==
  IF g.paused THEN g
  ELSE LET g1 == [g EXCEPT !.started = TRUE, !.neednewpiece = FALSE,
                           !.score = 0, !.level = 1, !.rows_completed = 0,
                           !.tiles = ClearTiles]
       IN  [make_new_piece_wide(g1, k) EXCEPT !.timer = TRUE]

\* pause()
pause_wide(g) ==
  IF ~g.started THEN g
  ELSE [g EXCEPT !.paused = ~g.paused, !.timer = g.paused]

\* try_pos(piece, ref_x, ref_y)
try_pos_wide(g, p, x, y) ==
  LET coords == AbsCoords(p, x, y)
  IN  IF \A i \in 1..4 :
           /\ OnBoard(coords[i][1], coords[i][2])
           /\ GetItem(g.tiles, coords[i][1], coords[i][2]) = NoShape
        THEN [st |-> [g EXCEPT !.this_piece = p, !.cur_x = x, !.cur_y = y],
              ret |-> TRUE]
        ELSE [st |-> g, ret |-> FALSE]

\* GameBoard.removefull(): hide the piece, remove the full rows, count them.
removefull_wide(g) ==
  LET g1 == [g EXCEPT !.neednewpiece = TRUE,
                      !.this_piece = SetShapeWide(g.this_piece, NoShape)]
      rf == removefull_board_wide(g1.tiles)
  IN  IF rf.raised
        THEN [st |-> [g1 EXCEPT !.tiles = rf.tiles], raised |-> TRUE,
              removed |-> 0]
        ELSE [st |-> [g1 EXCEPT !.tiles = rf.tiles,
                                !.rows_completed = @ + rf.ret,
                                !.score = @ + rf.ret * rf.ret],
              raised |-> FALSE, removed |-> rf.ret]

\* The loop of on_dropped(): for x, y in zip(xs, ys): self.board[x, y] = shape
RECURSIVE on_dropped_writes(_, _, _, _)
on_dropped_writes(t, cells, n, v) ==
  IF n > 4 THEN [tiles |-> t, raised |-> FALSE]
  ELSE IF ~IndexOK(FlatIndex(cells[n][1], cells[n][2]))
    THEN [tiles |-> t, raised |-> TRUE]
  ELSE on_dropped_writes(SetItem(t, cells[n][1], cells[n][2], v), cells,
                         n + 1, v)

\* on_dropped(); k is the kind randomize() returns if make_new_piece() runs.
on_dropped(g, k) ==
  LET lock == on_dropped_writes(g.tiles,
                                AbsCoords(g.this_piece, g.cur_x, g.cur_y), 1,
                                g.this_piece.shape)
      r    == removefull_wide([g EXCEPT !.tiles = lock.tiles])
  IN  IF lock.raised
        THEN [st |-> [g EXCEPT !.tiles = lock.tiles], raised |-> TRUE,
              didlock |-> TRUE, locked |-> lock.tiles, removed |-> 0,
              spawned |-> FALSE, draws |-> 0]
      ELSE IF r.raised
        THEN [st |-> r.st, raised |-> TRUE, didlock |-> TRUE,
              locked |-> lock.tiles, removed |-> 0, spawned |-> FALSE,
              draws |-> 0]
      ELSE IF r.st.neednewpiece
        THEN [st |-> make_new_piece_wide(r.st, k), raised |-> FALSE,
              didlock |-> TRUE, locked |-> lock.tiles, removed |-> r.removed,
              spawned |-> TRUE, draws |-> 1]
      ELSE [st |-> r.st, raised |-> FALSE, didlock |-> TRUE,
            locked |-> lock.tiles, removed |-> r.removed, spawned |-> FALSE,
            draws |-> 0]

\* one_row_down()
one_row_down_wide(g, k) ==
  LET t == try_pos_wide(g, g.this_piece, g.cur_x, g.cur_y - 1)
  IN  IF t.ret THEN [st |-> t.st] @@ NoDrop ELSE on_dropped(g, k)

\* The loop of drop_piece(): for new_y in range(cur_y - 1, -1, -1)
RECURSIVE drop_piece_loop(_, _)
drop_piece_loop(g, new_y) ==
  IF new_y < 0 THEN g
  ELSE LET t == try_pos_wide(g, g.this_piece, g.cur_x, new_y)
       IN  IF ~t.ret THEN g ELSE drop_piece_loop(t.st, new_y - 1)

\* drop_piece()
drop_piece(g, k) == on_dropped(drop_piece_loop(g, g.cur_y - 1), k)

\* The handler's call r becomes the next state.
CommitWide(r, op) ==
  /\ tiles' = r.st.tiles
  /\ this_piece' = r.st.this_piece
  /\ next_piece' = r.st.next_piece
  /\ cur_x' = r.st.cur_x
  /\ cur_y' = r.st.cur_y
  /\ neednewpiece' = r.st.neednewpiece
  /\ paused' = r.st.paused
  /\ started' = r.st.started
  /\ rows_completed' = r.st.rows_completed
  /\ score' = r.st.score
  /\ level' = r.st.level
  /\ timer' = r.st.timer
  /\ draws' = draws + r.draws
  /\ UNCHANGED heap
  /\ ev' = [op |-> op, raised |-> r.raised, didlock |-> r.didlock,
            locked |-> r.locked, removed |-> r.removed,
            spawned |-> r.spawned]

\* GameBoard.__init__: next_piece is drawn at construction.
InitWide ==
  /\ tiles = ClearTiles
  /\ this_piece = ShapeWide(NoShape)
  /\ next_piece \in {ShapeWide(k) : k \in KindsWide}
  /\ cur_x = 0
  /\ cur_y = 0
  /\ neednewpiece = FALSE
  /\ paused = FALSE
  /\ started = FALSE
  /\ rows_completed = 0
  /\ score = 0
  /\ level = 1
  /\ timer = FALSE
  /\ draws = 0
  /\ heap = InitHeap
  /\ ev = [op |-> "init", raised |-> FALSE, didlock |-> FALSE,
           locked |-> ClearTiles, removed |-> 0, spawned |-> FALSE]

\* Tetris.__init__: self.gameboard.start(), the program's one call of start().
TetrisInit ==
  /\ ev.op = "init"
  /\ \E k \in KindsWide :
       CommitWide([st |-> start_wide(GameBoard, k), spawned |-> TRUE,
                   draws |-> 1] @@ NoDrop, "start")

\* OnKeyDown skips every key unless started with a falling piece.
KeysAcceptedWide == started /\ this_piece.shape # NoShape

\* Key P: pause()
WideKeyP ==
  /\ KeysAcceptedWide
  /\ CommitWide([st |-> pause_wide(GameBoard)] @@ NoDrop, "pause")

\* The keys that call try_pos().
WideKeyTryPos(p, dx) ==
  /\ KeysAcceptedWide /\ ~paused
  /\ CommitWide([st |-> try_pos_wide(GameBoard, p, cur_x + dx, cur_y).st]
                  @@ NoDrop, "try_pos")

WideKeyLeft == WideKeyTryPos(this_piece, -1)

WideKeyRight == WideKeyTryPos(this_piece, 1)

WideKeyDown == WideKeyTryPos(rotate_ccw(this_piece), 0)

WideKeyUp == WideKeyTryPos(rotate_cw(this_piece), 0)

\* Key space: drop_piece()
WideKeySpace ==
  /\ KeysAcceptedWide /\ ~paused
  /\ \E k \in KindsWide :
       LET r == drop_piece(GameBoard, k)
       IN  /\ draws + r.draws <= MaxDraws
           /\ CommitWide(r, "drop_piece")

\* Key D: one_row_down()
WideKeyD ==
  /\ KeysAcceptedWide /\ ~paused
  /\ \E k \in KindsWide :
       LET r == one_row_down_wide(GameBoard, k)
       IN  /\ draws + r.draws <= MaxDraws
           /\ CommitWide(r, "one_row_down")

\* OnTimer: a new piece if one is needed, else one row down.
WideOnTimer ==
  /\ timer
  /\ \E k \in KindsWide :
       LET r == IF neednewpiece
                  THEN [st |-> make_new_piece_wide(GameBoard, k),
                        spawned |-> TRUE, draws |-> 1] @@ NoDrop
                  ELSE one_row_down_wide(GameBoard, k)
       IN  /\ draws + r.draws <= MaxDraws
           /\ CommitWide(r, "OnTimer")

NextWide ==
  \/ TetrisInit
  \/ WideKeyP
  \/ WideKeyLeft
  \/ WideKeyRight
  \/ WideKeyDown
  \/ WideKeyUp
  \/ WideKeySpace
  \/ WideKeyD
  \/ WideOnTimer

SpecWide == InitWide /\ [][NextWide]_vars

\* ------------------------------------------------------------ properties
\* The spawn position (nTilesH // 2, nTilesV - 1).
SpawnX == nTilesH \div 2

SpawnY == nTilesV - 1

\* The fields of the engine other than the falling piece and its position.
others == <<tiles, next_piece, neednewpiece, paused, started, rows_completed,
            score, level>>

\* C1: start() called while paused is false returns true and leaves the
\* engine running, with a falling piece of a real kind at the spawn
\* position, whatever the board held.
C1_StartLeavesRunning ==
  (ev.op = "start" /\ ev.ret) =>
     /\ started
     /\ this_piece.shape # NoShape
     /\ cur_x = SpawnX
     /\ cur_y = SpawnY

\* The board a lock at (x, y) is meant to leave: the kind of p in exactly
\* the cells of p below the top, every other tile as it was.
LockExpected(t, p, x, y) ==
  [i \in 1..NTiles |->
     IF \E n \in 1..4 :
          /\ p.coords[n][2] + y < nTilesV
          /\ OnBoard(p.coords[n][1] + x, p.coords[n][2] + y)
          /\ (p.coords[n][2] + y) * nTilesH + p.coords[n][1] + x + 1 = i
       THEN p.shape ELSE t[i]]

\* C2: the lock step of piece_dropped() writes the kind of the piece into
\* exactly its cells below the top row and changes no other tile (the board
\* as it is before rows are removed).
C2_LockWritesExactlyThePiece ==
  [][(ev'.op = "one_row_down" /\ ev'.didlock)
       => ev'.locked = LockExpected(tiles, this_piece, cur_x, cur_y)]_vars

\* C3: the lock step uses only columns 0..nTilesH-1 and rows 0..nTilesV-1,
\* and the grid keeps exactly nTilesH*nTilesV tiles.
C3_AccessWithinTheGrid ==
  /\ ~ev.oob
  /\ Len(tiles) = nTilesH * nTilesV

\* Row y of board t, and whether it is full.
\* The tile of board t at column x, row y (both on the board).
Tile(t, x, y) == t[y * nTilesH + x + 1]

RowFull(t, y) == \A x \in 0..(nTilesH - 1) : Tile(t, x, y) # NoShape

FullRows(t) == {y \in 0..(nTilesV - 1) : RowFull(t, y)}

\* The number of rows below y that are full.
FullBelow(t, y) == Cardinality({z \in FullRows(t) : z < y})

\* The board removing the full rows is meant to leave: every row that is not
\* full moved down by the number of full rows below it, empty rows on top.
Compacted(t) ==
  [i \in 1..NTiles |->
     LET y == (i - 1) \div nTilesH
         x == (i - 1) % nTilesH
         src == {z \in 0..(nTilesV - 1) :
                   ~RowFull(t, z) /\ z - FullBelow(t, z) = y}
     IN  IF src = {} THEN NoShape
         ELSE Tile(t, x, CHOOSE z \in src : TRUE)]

\* C4: removefull() returns the number of full rows and leaves the rows
\* that were not full compacted at the bottom, in order, with empty rows on
\* top: checked on every board a lock hands to it.
C4_RemoveFullCompacts ==
  ev.didlock =>
     /\ ~ev.raised
     /\ ev.removed = Cardinality(FullRows(ev.locked))
     /\ tiles = Compacted(ev.locked)

\* C5: no engine operation raises an exception in a state reached in play.
C5_NoException == ~ev.raised

\* Whether some cell of p at (x, y) lies left of, right of or below the
\* board, whatever its row.
CellOutside(p, x, y) ==
  \E n \in 1..4 :
     \/ p.coords[n][1] + x < 0
     \/ p.coords[n][1] + x >= nTilesH
     \/ p.coords[n][2] + y < 0

\* C6: check_pos returns false whenever a cell of the piece has a column
\* below 0 or beyond the last, or a row below 0, also when that cell is
\* above the top row: stated of the piece and origin the engine holds.
C6_CheckPosRejectsOutside ==
  CellOutside(this_piece, cur_x, cur_y)
    => ~check_pos(tiles, this_piece, cur_x, cur_y)

\* C7: start() called while paused returns false and changes nothing.
C7_StartWhilePausedIsNoOp ==
  [][(ev'.op = "start" /\ paused)
       => /\ ~ev'.ret
          /\ UNCHANGED <<tiles, this_piece, cur_x, cur_y, next_piece,
                         neednewpiece, started, paused, rows_completed,
                         score, level>>]_vars

C7_Witness == ev.op = "start" /\ ~ev.ret /\ paused /\ rows_completed > 0

\* C8: a lock that removes n rows adds exactly n*n to score (none: 0).
C8_ScoreAddsSquare ==
  [][(ev'.didlock /\ ~ev'.raised)
       => score' = score + ev'.removed * ev'.removed]_vars

\* What try_pos(p, x, y) is meant to do to the engine.
TryPosEffect(p, x, y) ==
  /\ IF check_pos(tiles, p, x, y)
       THEN ev'.ret /\ this_piece' = p /\ cur_x' = x /\ cur_y' = y
       ELSE ~ev'.ret /\ UNCHANGED <<this_piece, cur_x, cur_y>>
  /\ UNCHANGED others

\* C9: try_pos is atomic: it commits exactly (piece, x, y) and returns true
\* when check_pos holds, else returns false and leaves piece and position
\* alone; board, counters and flags are unchanged either way.  A rejected
\* move or rotation tries no other position.
C9_TryPosAtomic ==
  [][/\ OnKeyDownLeft => TryPosEffect(this_piece, cur_x - 1, cur_y)
     /\ OnKeyDownRight => TryPosEffect(this_piece, cur_x + 1, cur_y)
     /\ OnKeyDownUp => TryPosEffect(rotate_cw(this_piece), cur_x, cur_y)
     /\ OnKeyDownDown => TryPosEffect(rotate_ccw(this_piece), cur_x, cur_y)]_vars

C9_Witness ==
  /\ ev.op = "try_pos" /\ ~ev.ret
  /\ this_piece.shape = TShape
  /\ this_piece.coords # shapeCoords[TShape + 1]
  /\ cur_x = 0

\* C10: when the next piece cannot be placed at the spawn position, as when
\* the top row is full, make_new_piece() returns false, the falling piece
\* has kind NoShape and started is false; board and counters are unchanged.
C10_FailedSpawnEndsGame ==
  [][(ev'.op = "make_new_piece"
        /\ (~check_pos(tiles, next_piece, SpawnX, SpawnY)
              \/ RowFull(tiles, SpawnY)))
       => /\ ~ev'.ret
          /\ this_piece'.shape = NoShape
          /\ ~started'
          /\ UNCHANGED <<tiles, rows_completed, score, level>>]_vars

C10_Witness ==
  /\ ev.op = "make_new_piece" /\ ~ev.ret
  /\ ~started /\ this_piece.shape = NoShape
  /\ Tile(tiles, SpawnX, SpawnY) # NoShape

\* C11: when the next piece can be placed at the spawn position,
\* make_new_piece() returns true; the falling piece then has the kind and the
\* template offsets the next piece had, at the spawn position; neednewpiece
\* is false, the new next piece has a real kind, and board, counters, started
\* and paused are unchanged.
C11_SpawnPromotesNext ==
  [][(ev'.op = "make_new_piece" /\ check_pos(tiles, next_piece, SpawnX, SpawnY))
       => /\ ev'.ret
          /\ this_piece'.shape = next_piece.shape
          /\ this_piece'.coords = shapeCoords[next_piece.shape + 1]
          /\ cur_x' = SpawnX
          /\ cur_y' = SpawnY
          /\ ~neednewpiece'
          /\ next_piece'.shape # NoShape
          /\ UNCHANGED <<tiles, rows_completed, score, level, started,
                         paused>>]_vars

C11_Witness ==
  /\ ev.op = "make_new_piece" /\ ev.ret
  /\ this_piece.shape # NoShape
  /\ cur_x = SpawnX /\ cur_y = SpawnY
  /\ tiles # ClearTiles

\* C12: a timer tick does exactly one of two things: with neednewpiece set
\* it calls make_new_piece() and moves nothing down; otherwise it does one
\* one_row_down() and spawns nothing.  So every lock is followed by a state
\* in which the timer runs, started is true, no piece is falling and
\* neednewpiece is set, and the next tick spawns.
C12_TickSpawnsOrMovesDown ==
  [][/\ (OnTimer /\ neednewpiece)
          => /\ ev'.op = "make_new_piece"
             /\ ~ev'.didlock
             /\ tiles' = tiles
             /\ ~neednewpiece'
             /\ \/ ev'.ret /\ cur_x' = SpawnX /\ cur_y' = SpawnY
                \/ ~ev'.ret /\ cur_x' = cur_x /\ cur_y' = cur_y
     /\ (OnTimer /\ ~neednewpiece)
          => /\ ev'.op = "one_row_down"
             /\ next_piece' = next_piece
             /\ cur_x' = cur_x
             /\ \/ ~ev'.didlock /\ cur_y' = cur_y - 1
                \/ ev'.didlock /\ cur_y' = cur_y
     /\ ev'.didlock
          => /\ timer'
             /\ started'
             /\ neednewpiece'
             /\ this_piece'.shape = NoShape]_vars

\* How many rows the falling piece can go down: the largest n with check_pos
\* true at every row cur_y-1 .. cur_y-n.
DropDepth ==
  CHOOSE n \in 0..(nTilesV + 4) :
     /\ \A i \in 1..n : check_pos(tiles, this_piece, cur_x, cur_y - i)
     /\ ~check_pos(tiles, this_piece, cur_x, cur_y - n - 1)

\* C13: a hard drop terminates and locks the falling piece, column and
\* orientation unchanged, at row cur_y - n, n the number of rows it can go
\* down (0 when the row below is blocked): the lock puts the piece's cells at
\* that origin on the board; afterwards neednewpiece is set and no piece is
\* falling.
C13_HardDropLandsLowest ==
  [][ev'.op = "drop_down"
       => /\ ev'.didlock
          /\ ~ev'.raised
          /\ cur_x' = cur_x
          /\ cur_y' = cur_y - DropDepth
          /\ ev'.locked =
                LockExpected(tiles, this_piece, cur_x, cur_y - DropDepth)
          /\ neednewpiece'
          /\ this_piece'.shape = NoShape]_vars

\* C14: one_row_down() either returns true, having lowered cur_y by exactly 1
\* with cur_x, the piece and the board unchanged, or returns false, having
\* left cur_x and cur_y alone and run piece_dropped(); it returns false
\* exactly when check_pos(this_piece, cur_x, cur_y - 1) is false.
C14_OneRowDown ==
  [][ev'.op = "one_row_down"
       => /\ ~ev'.raised
          /\ IF check_pos(tiles, this_piece, cur_x, cur_y - 1)
                THEN /\ ev'.ret
                     /\ ~ev'.didlock
                     /\ cur_y' = cur_y - 1
                     /\ UNCHANGED <<cur_x, this_piece, tiles>>
                ELSE /\ ~ev'.ret
                     /\ ev'.didlock
                     /\ UNCHANGED <<cur_x, cur_y>>]_vars

\* C15: piece_dropped() sets neednewpiece, sets the falling piece's kind to
\* NoShape and adds to rows_completed the number of rows the lock filled,
\* which it removes (0 when no row became full); started, paused, cur_x,
\* cur_y and the next piece are unchanged.
C15_PieceDropped ==
  [][(ev'.op = "one_row_down" /\ ev'.didlock)
       => /\ neednewpiece'
          /\ this_piece'.shape = NoShape
          /\ rows_completed' = rows_completed + Cardinality(FullRows(ev'.locked))
          /\ FullRows(tiles') = {}
          /\ UNCHANGED <<started, paused, cur_x, cur_y, next_piece>>]_vars

\* C16: after start() returns true every tile of the board is empty,
\* rows_completed and score are 0 and neednewpiece is false, whatever the
\* board and the counters held before.
C16_StartResets ==
  (ev.op = "start" /\ ev.ret)
    => /\ \A i \in 1..NTiles : tiles[i] = NoShape
       /\ rows_completed = 0
       /\ score = 0
       /\ ~neednewpiece

\* start() has returned true on a board whose tiles blocked the spawn.
C16_Witness ==
  /\ ev.op = "start" /\ ev.ret
  /\ ~started
  /\ tiles = ClearTiles
  /\ draws > 2

\* C17: started goes from true to false only in a make_new_piece() that
\* fails (called by the timer, or by start()), and from false to true only in
\* start(); no move, rotation, soft or hard drop with its lock and row
\* removal, or pause toggle changes it.
C17_StartedChanges ==
  [][/\ (started /\ ~started')
          => \/ /\ ev'.op = "make_new_piece" /\ ~ev'.ret
                /\ ~check_pos(tiles, next_piece, SpawnX, SpawnY)
             \/ /\ ev'.op = "start"
                /\ ~check_pos(tiles, next_piece', SpawnX, SpawnY)
     /\ (~started /\ started') => ev'.op = "start"
     /\ ev'.op \in {"try_pos", "one_row_down", "drop_down", "pause"}
          => started' = started]_vars

\* The game has ended in a failed spawn after a lock at the top.
C17_Witness ==
  /\ ev.op = "make_new_piece" /\ ~ev.ret
  /\ ~started /\ ~timer
  /\ \E x \in 0..(nTilesH - 1) : Tile(tiles, x, SpawnY) # NoShape

\* C18: neednewpiece is set exactly between a lock and the next spawn
\* attempt: it is set exactly when the last engine call locked a piece; while
\* it is set no piece is falling, and while the game is started and it is
\* not set a piece is falling.
C18_NeedNewPiece ==
  /\ neednewpiece <=> ev.didlock
  /\ neednewpiece => this_piece.shape = NoShape
  /\ (started /\ ~neednewpiece) => this_piece.shape # NoShape

C18_Witness ==
  /\ neednewpiece /\ started /\ this_piece.shape = NoShape
  /\ ev.op = "one_row_down" /\ ev.didlock /\ ev.removed > 0

\* C19: pause() called while started is false returns true and changes
\* nothing; while started is true it negates paused and returns the new
\* value, and leaves board, falling piece, position, next piece,
\* neednewpiece, started and the counters unchanged (so a second toggle
\* restores the state).
C19_PauseToggles ==
  [][ev'.op = "pause"
       => /\ IF started THEN paused' = ~paused /\ ev'.ret = paused'
                        ELSE paused' = paused /\ ev'.ret
          /\ UNCHANGED <<tiles, this_piece, cur_x, cur_y, next_piece,
                         neednewpiece, started, rows_completed, score,
                         level>>]_vars

\* pause() has been called on a game that ended, leaving it not paused.
C19_Witness ==
  /\ ev.op = "pause" /\ ev.ret
  /\ ~started /\ ~paused
  /\ tiles # ClearTiles

\* The cells of p at (x, y) that lie below the top of the board.
CellsBelowTop(p, x, y) ==
  {c \in {<<p.coords[n][1] + x, p.coords[n][2] + y>> : n \in 1..4} :
     c[2] < nTilesV}

\* C20: check_pos tests occupancy only for the piece's cells with row below
\* nTilesV: it returns true only if those cells are on the board and empty,
\* no cell at or above row nTilesV makes it return false when they are, and
\* it returns false whenever all four cells are at or above row nTilesV.
C20_CheckPosAboveTop ==
  ev.op = "check_pos" =>
     LET cells == CellsBelowTop(this_piece, cur_x, cur_y)
         free  == \A c \in cells :
                     OnBoard(c[1], c[2]) /\ Tile(tiles, c[1], c[2]) = NoShape
     IN  /\ cells = {} => ~ev.ret
         /\ ev.ret => free
         /\ (cells # {} /\ free) => ev.ret

\* check_pos has returned false for a piece wholly above an empty board.
C20_Witness ==
  /\ ev.op = "check_pos" /\ ~ev.ret
  /\ CellsBelowTop(this_piece, cur_x, cur_y) = {}
  /\ tiles = ClearTiles
  /\ 0 < cur_x /\ cur_x < nTilesH - 1

\* C21: on a board without a full row removefull() returns 0 and leaves
\* every tile as it is; and on every board a second removefull() right after
\* a first returns 0 and changes nothing.
C21_RemoveFullIdempotent ==
  [][/\ (ev'.op = "removefull" /\ FullRows(tiles) = {})
          => ~ev'.raised /\ ev'.removed = 0 /\ tiles' = tiles
     /\ ev'.op = "removefull again"
          => ~ev'.raised /\ ev'.removed = 0 /\ tiles' = tiles]_vars

\* The offsets of a piece as a set.
OffsetSet(coords) == {coords[n] : n \in 1..4}

\* C22: for every kind but O, from every orientation the rotations reach,
\* rotate_cw then rotate_ccw, and rotate_ccw then rotate_cw, give the
\* offset set the piece had, and four rotate_cw in a row, or four
\* rotate_ccw, give the offsets it had.
C22_RotationsInvert ==
  (ev.op # "init" /\ ev.kind \notin {NoShape, OShape}) =>
     /\ \A i \in 1..(Len(ev.path) - 1) :
           ev.path[i] # ev.path[i + 1]
             => OffsetSet(ev.hist[i + 2]) = OffsetSet(ev.hist[i])
     /\ \A i \in 1..(Len(ev.path) - 3) :
           (\A j \in i..(i + 3) : ev.path[j] = ev.path[i])
             => ev.hist[i + 4] = ev.hist[i]

\* A T turned ccw, then cw (back), then three more times cw and once more.
C22_Witness ==
  /\ ev.op = "rotate_cw"
  /\ ev.kind = TShape
  /\ ev.path = <<"rotate_ccw", "rotate_cw", "rotate_cw", "rotate_cw",
                 "rotate_cw">>
  /\ this_piece.shape = TShape
  /\ this_piece.coords = ev.hist[2]

\* C23: rotate_cw and rotate_ccw of an O piece give a piece of kind O with
\* the very offsets of the input, so that rotating a falling O never changes
\* the cells it covers.
C23_RotateOIsNoOp ==
  (ev.op \in {"rotate_cw", "rotate_ccw"} /\ ev.kind = OShape) =>
     /\ this_piece.shape = OShape
     /\ this_piece.coords = shapeCoords[OShape + 1]
     /\ \A i \in 1..Len(ev.hist) : ev.hist[i] = shapeCoords[OShape + 1]

C23_Witness ==
  /\ ev.kind = OShape /\ this_piece.shape = OShape
  /\ \E i, j \in 1..Len(ev.path) :
        ev.path[i] = "rotate_cw" /\ ev.path[j] = "rotate_ccw"
  /\ ev.op = "rotate_ccw"

\* C24: between two start() calls that return true, rows_completed and
\* score never decrease, whatever moves, rotations, drops, ticks and pause
\* toggles happen, and they change only in a step that locks a piece.
C24_CountersMonotonic ==
  [][~(ev'.op = "start" /\ ev'.ret)
       => /\ rows_completed' >= rows_completed
          /\ score' >= score
          /\ (rows_completed' # rows_completed \/ score' # score)
               => ev'.didlock]_vars

\* A spawn after a lock that removed a row: the count is kept.
C24_Witness ==
  /\ ev.op = "make_new_piece" /\ ev.ret
  /\ rows_completed > 0
  /\ started

\* C25: whatever rotations, locks (which reset the locked piece's kind in
\* place) and spawns happen, the template table in memory stays as it is, a
\* piece drawn and not yet in play has the template's offsets of its kind,
\* and so has a piece when it is spawned; rotating or resetting the falling
\* piece leaves the next piece alone.
C25_TemplateNeverChanges ==
  [][/\ \A k \in TemplateAddrs : heap'.lists[k] = shapeCoords[k + 1]
     /\ next_piece'.coords = shapeCoords[next_piece'.shape + 1]
     /\ ev'.op = "make_new_piece"
          => /\ this_piece' = next_piece
             /\ this_piece'.coords = shapeCoords[this_piece'.shape + 1]
     /\ ev'.op \in {"rotate_cw", "rotate_ccw", "setter"}
          => next_piece' = next_piece]_vars

\* A rotated piece has been reset in place while the next piece, of the
\* same kind, holds the template's offsets.
C25_Witness ==
  /\ ev.op = "setter"
  /\ Len(ev.path) >= 2
  /\ this_piece.shape = NoShape
  /\ next_piece.shape = ev.kind
  /\ next_piece.coords = ev.hist[1]
  /\ ev.hist[Len(ev.hist)] # ev.hist[1]

\* C26: while paused is true the timer is stopped and every key but P is
\* ignored: no step taken while paused changes board, falling piece,
\* position, next piece, neednewpiece or the counters, so they are the same
\* at the unpause as they were at the pause.
C26_PausedFreezes ==
  [][paused
       => /\ ~timer
          /\ UNCHANGED <<tiles, this_piece, cur_x, cur_y, next_piece,
                         neednewpiece, started, rows_completed, score,
                         level>>]_vars

\* The game has been unpaused, a piece half way down above locked tiles.
C26_Witness ==
  /\ ev.op = "pause" /\ ~ev.ret
  /\ ~paused /\ timer /\ started
  /\ this_piece.shape # NoShape
  /\ cur_y < SpawnY
  /\ tiles # ClearTiles

\* C27: in tetris-wide.py the event that drops and fixes a piece creates no
\* new piece and leaves neednewpiece true; neednewpiece then stays true
\* through every event that is not a timer event; and the first timer event
\* after the lock creates the new piece and moves nothing down.
C27_NewPieceOnNextTimer ==
  [][/\ ev'.didlock => neednewpiece' /\ ~ev'.spawned
     /\ (neednewpiece /\ ev'.op # "OnTimer") => neednewpiece'
     /\ (neednewpiece /\ ev'.op = "OnTimer")
          => ev'.spawned /\ ~ev'.didlock /\ ~neednewpiece']_vars

\* C28: while a piece is falling, each of its cells below the top of the
\* board has a column of the board, a row of the board, and lies on an empty
\* tile: the falling piece never overlaps a locked tile, also right after
\* start() and right after a spawn.
C28_PieceOnEmptyTiles ==
  this_piece.shape # NoShape =>
     \A c \in CellsBelowTop(this_piece, cur_x, cur_y) :
        /\ 0 <= c[1] /\ c[1] < nTilesH
        /\ c[2] >= 0
        /\ Tile(tiles, c[1], c[2]) = NoShape

\* A piece right after a spawn onto a board that holds tiles in its top row.
C28_Witness ==
  /\ ev.op = "make_new_piece" /\ ev.ret
  /\ this_piece.shape # NoShape
  /\ cur_x = SpawnX /\ cur_y = SpawnY
  /\ \E x \in 0..(nTilesH - 1) : Tile(tiles, x, SpawnY) # NoShape

\* C29: after every lock (piece_dropped with its removefull), hence in every
\* state between operations, no row of the board has all its tiles occupied.
C29_NoFullRow == FullRows(tiles) = {}

\* The number of occupied tiles of board t.
Occupied(t) == Cardinality({i \in 1..NTiles : t[i] # NoShape})

\* C30: a lock never overwrites an occupied tile: the occupied tiles after it
\* are those before it, plus the cells of the piece below the top, minus
\* nTilesH for every row removed.
C30_LockCountsCells ==
  [][(ev'.op = "one_row_down" /\ ev'.didlock /\ this_piece.shape # NoShape)
       => Occupied(tiles') =
            Occupied(tiles)
              + Cardinality(CellsBelowTop(this_piece, cur_x, cur_y))
              - nTilesH * ev'.removed]_vars

\* C31: if ticks keep occurring while the game is started and not paused
\* (and the game does not stay paused for ever), every falling piece is
\* eventually locked: neednewpiece becomes true, whatever moves and rotations
\* come between the ticks.
C31_PieceEventuallyLocks ==
  ([]<>(~paused))
    => ((started /\ this_piece.shape # NoShape) ~> neednewpiece)

\* An I piece that was moved to the right wall and turned to lie flat has
\* come down to the bottom row and is locked there.
C31_Witness ==
  /\ neednewpiece
  /\ ev.op = "one_row_down" /\ ev.didlock
  /\ \A x \in 0..(nTilesH - 1) : Tile(ev.locked, x, 0) = IShape

\* C32: under the GUI handlers' guards, paused implies started in every
\* reachable state: the game is never over (or not yet started) with paused
\* set.
C32_PausedImpliesStarted == paused => started

\* The game is paused with a piece on its way down over locked tiles.
C32_Witness ==
  /\ paused /\ started
  /\ ev.op = "pause" /\ ev.ret
  /\ this_piece.shape # NoShape
  /\ tiles # ClearTiles

\* C33: under the GUI handlers the lock step never runs while the falling
\* piece has kind NoShape, and an occupied tile becomes empty only in a lock
\* that removes rows or in start()'s clearing of the board.
C33_NoLockWithoutPiece ==
  [][/\ ev'.didlock => this_piece.shape # NoShape
     /\ (\E i \in 1..NTiles : tiles[i] # NoShape /\ tiles'[i] = NoShape)
          => (ev'.removed > 0 \/ ev'.op = "start")]_vars

\* The rows of the board in which t and u differ.
RowsChanged(t, u) ==
  {y \in 0..(nTilesV - 1) :
     \E x \in 0..(nTilesH - 1) : Tile(t, x, y) # Tile(u, x, y)}

C35_OneTimerPending ==
  /\ TkPending(timer) <= 1
  /\ paused => TkPending(timer) = 0
  /\ ~started => TkPending(timer) = 0

====
